---- MODULE Spec2Model ----
(***************************************************************************)
(* Model of syphon/hash.py: HashEntry (one manifest line), _OpenHashFile   *)
(* (an open manifest stream) and HashFile (the counted context manager).   *)
(*                                                                         *)
(* Text is a sequence of one-character strings.  Stream positions are      *)
(* character offsets, 0 = start of file.                                   *)
(***************************************************************************)
EXTENDS Integers, Sequences, FiniteSets, TLC

VARIABLES
    content,      \* _OpenHashFile._file_obj: the characters of the manifest
    pos,          \* _OpenHashFile._file_obj: the stream position (tell())
    hash_type,    \* _OpenHashFile.hash_type
    last,         \* the most recent call on the stream: arguments, pre-state, outcome
    calls,        \* number of append and update calls made on the stream
    entry,        \* one HashEntry object
    reads,        \* number of times the target file of `entry` was read
    result,       \* the most recent call on the HashEntry: arguments and value
    _count,       \* HashFile._count
    _file,        \* HashFile._file: None or the identity of the open stream
    opens,        \* number of open() calls that succeeded (stream identities 1..opens)
    closed,       \* identities of the streams that were closed
    held,         \* streams returned by the acquisitions not yet released
    failed,       \* number of __enter__ calls in which open() raised
    iter          \* one generator made by entries(), and the loop that drives it

vars == <<content, pos, hash_type, last, calls, entry, reads, result,
          _count, _file, opens, closed, held, failed, iter>>

streamVars == <<content, pos, hash_type, last, calls>>
entryVars == <<entry, reads, result>>
handleVars == <<_count, _file, opens, closed, held, failed>>
iterVars == <<iter>>

(***************************************************************************)
(* Bounds                                                                  *)
(***************************************************************************)
MaxLines == 1        \* lines of the manifest when it is opened
MaxCalls == 2        \* append and update calls on one stream
MaxPathLen == 1      \* length of the filepath given to HashEntry()
MaxLineLen == 3      \* length of the text given to HashEntry.from_str
MaxCount == 4        \* nesting depth of HashFile.__enter__
MaxOpens == 5        \* number of successful open() calls
MaxFailed == 3       \* number of failing open() calls
MaxIterLines == 2    \* lines of the manifest an iteration starts on
MaxAfter == 1        \* next() calls on a generator that has finished
MaxLoopUpdates == 3  \* update calls made by a loop over entries()

(***************************************************************************)
(* Characters                                                              *)
(***************************************************************************)
\* Optional values: None is the empty sequence, a value v is <<v>>.
None == <<>>
Some(v) == <<v>>
\* The digest "computed" when opening or reading the target file raises.
IOError == <<"IOError">>

HexDigits == {"a", "b"}
Whitespace == {" ", "\n"}
Chars == HexDigits \cup Whitespace \cup {"x", "*"}

Max(a, b) == IF a > b THEN a ELSE b

RECURSIVE SeqsUpTo(_, _)
SeqsUpTo(S, n) ==
    IF n = 0 THEN {<<>>}
    ELSE LET shorter == SeqsUpTo(S, n - 1)
         IN  shorter \cup {Append(s, c) : s \in shorter, c \in S}

SeqsOfLen(S, n) == {s \in SeqsUpTo(S, n) : Len(s) = n}

(***************************************************************************)
(* hashlib                                                                 *)
(***************************************************************************)
DEFAULT_HASH_TYPE == "sha256"
algorithms_available == {"sha256", "md5"}
HashTypeNames == algorithms_available \cup {"bogus"}

\* Number of hex characters of hexdigest(): 64 and 32 in hashlib, scaled
\* down here, sha256 staying the longer of the two.
DigestLen(t) == IF t = "sha256" THEN 2 ELSE 1

Digests(t) == SeqsOfLen(HexDigits, DigestLen(t))

(***************************************************************************)
(* str methods and the regular expression of _default_line_split           *)
(***************************************************************************)
RECURSIVE lstrip(_)
lstrip(s) ==
    IF s # <<>> /\ Head(s) \in Whitespace THEN lstrip(Tail(s)) ELSE s

RECURSIVE rstrip(_)
rstrip(s) ==
    IF s # <<>> /\ s[Len(s)] \in Whitespace
    THEN rstrip(SubSeq(s, 1, Len(s) - 1))
    ELSE s

strip(s) == rstrip(lstrip(s))

\* Length of the longest prefix of s made of characters of S.
RECURSIVE Run(_, _)
Run(s, S) ==
    IF s # <<>> /\ Head(s) \in S THEN 1 + Run(Tail(s), S) ELSE 0

Drop(s, n) == SubSeq(s, n + 1, Len(s))

Contains(s, c) == \E i \in 1..Len(s) : s[i] = c

\* sep.join(parts)
RECURSIVE join(_, _)
join(sep, parts) ==
    IF parts = <<>> THEN <<>>
    ELSE IF Len(parts) = 1 THEN parts[1]
    ELSE parts[1] \o sep \o join(sep, Tail(parts))

(***************************************************************************)
(* HashEntry                                                               *)
(***************************************************************************)
\* HashEntry.__init__ with a supported hash type
HashEntry(filepath, binary, ht) ==
    [_hash_cache |-> <<>>,
     _hash_obj   |-> ht,
     _raw_entry  |-> <<>>,
     binary      |-> binary,
     filepath    |-> filepath]

\* HashEntry.cached
cached(e) == e._hash_cache # <<>>

\* The hash property without its cache: _hash() on every access
hash_uncached(e, d) == d

\* HashEntry.hash: the cache when there is one, else the digest d that
\* _hash() computes from the target file (d = IOError: open/read raises).
hash(e, d) == IF Len(e._hash_cache) > 0 THEN e._hash_cache ELSE d

\* What _hash() can give for e: a digest of its hash type, or IOError when
\* open() or read() raises, as open() always does on the empty path.
_hash(e) ==
    IF e.filepath = <<>> THEN {IOError}
    ELSE Digests(e._hash_obj) \cup {IOError}

\* The entry after its hash property was read with outcome d.
AfterHash(e, d) ==
    IF Len(e._hash_cache) > 0 \/ d = IOError THEN e
    ELSE [e EXCEPT !._hash_cache = d]

\* __str__ with the mode character as the only separator
Str_one_separator(h, binary, filepath) ==
    h \o (IF binary THEN <<"*">> ELSE <<" ">>) \o filepath

\* HashEntry.__str__ given the value h of self.hash
Str(h, binary, filepath) ==
    join(<<" ">>, <<h, (IF binary THEN <<"*">> ELSE <<" ">>) \o filepath>>)

\* The splitter with \s* between the digest and the rest
_default_line_split_no_space(line) ==
    LET s     == strip(line)
        nhex  == Run(s, HexDigits)
        after == Drop(s, nhex)
        nws   == Run(after, Whitespace)
        rest  == Drop(after, nws)
        is_binary == rest # <<>> /\ Head(rest) = "*"
    IN  IF nhex = 0 \/ Contains(rest, "\n") THEN None
        ELSE Some([hash   |-> SubSeq(s, 1, nhex),
                   file   |-> IF is_binary THEN Tail(rest) ELSE rest,
                   binary |-> is_binary])

\* HashEntry._default_line_split: None, or the SplitResult
_default_line_split(line) ==
    LET s     == strip(line)
        nhex  == Run(s, HexDigits)
        after == Drop(s, nhex)
        nws   == Run(after, Whitespace)
        rest  == Drop(after, nws)
        is_binary == rest # <<>> /\ Head(rest) = "*"
    IN  IF nhex = 0 \/ nws = 0 \/ Contains(rest, "\n") THEN None
        ELSE Some([hash   |-> SubSeq(s, 1, nhex),
                   file   |-> IF is_binary THEN Tail(rest) ELSE rest,
                   binary |-> is_binary])

\* HashEntry.from_str with the default splitter: None stands for
\* MalformedLineError.
from_str(line, ht) ==
    LET split == _default_line_split(line)
    IN  IF split = None THEN None
        ELSE Some([HashEntry(split[1].file, split[1].binary, ht) EXCEPT
                      !._hash_cache = split[1].hash,
                      !._raw_entry = line])

(***************************************************************************)
(* The text stream under _OpenHashFile                                     *)
(***************************************************************************)
\* file.readline() at offset p: up to and including the next newline, or
\* up to end of file; empty at end of file.
readline(c, p) ==
    LET ends == {i \in (p + 1)..Len(c) : c[i] = "\n"}
        stop == IF ends = {} THEN Len(c)
                ELSE CHOOSE i \in ends : \A j \in ends : i <= j
    IN  SubSeq(c, p + 1, stop)

\* file.read() at offset p: everything up to end of file.
read(c, p) == SubSeq(c, p + 1, Len(c))

\* file.write(s) at offset p: the characters from p on are overwritten,
\* and the file grows when s reaches past its end.
write(c, p, s) ==
    [i \in 1..Max(Len(c), p + Len(s)) |->
        IF i > p /\ i <= p + Len(s) THEN s[i - p] ELSE c[i]]

\* The lines of the text c, in order, each with its terminator if it has one.
RECURSIVE Lines(_)
Lines(c) ==
    IF c = <<>> THEN <<>>
    ELSE LET line == readline(c, 0)
         IN  <<line>> \o Lines(Drop(c, Len(line)))

(***************************************************************************)
(* _OpenHashFile                                                           *)
(***************************************************************************)
Outcome(c, p, o) == [content |-> c, pos |-> p, outcome |-> o]

\* The newline test without the test for an empty file
add_newline_on_empty(c) == c = <<>> \/ c[Len(c)] # "\n"

\* The newline test of append: the file is not empty and its last
\* character, read from offset here - 1, is not a newline.
add_newline(c) ==
    LET here == Len(c)
    IN  here # 0 /\ read(c, here - 1) # <<"\n">>

\* The text append writes at the end of the file.
appended_text(c, h, e) ==
    (IF add_newline(c) THEN <<"\n">> ELSE <<>>)
        \o Str(h, e.binary, e.filepath) \o <<"\n">>

\* append that seeks back to the old end of the file
append_seeks_old_end(ht, c, p, e, d) ==
    IF e._hash_obj # ht THEN Outcome(c, p, "ValueError")
    ELSE IF hash(e, d) = IOError THEN Outcome(c, Len(c), "IOError")
    ELSE Outcome(write(c, Len(c), appended_text(c, hash(e, d), e)),
                 Max(p, Len(c)), "ok")

\* append that does not seek back to its initial position
append_stays_at_end(ht, c, p, e, d) ==
    IF e._hash_obj # ht THEN Outcome(c, p, "ValueError")
    ELSE IF hash(e, d) = IOError THEN Outcome(c, Len(c), "IOError")
    ELSE LET text == appended_text(c, hash(e, d), e)
         IN  Outcome(write(c, Len(c), text), Len(c) + Len(text), "ok")

\* append that compares the hash types after writing
append_checks_late(ht, c, p, e, d) ==
    IF hash(e, d) = IOError THEN Outcome(c, Len(c), "IOError")
    ELSE LET text == appended_text(c, hash(e, d), e)
         IN  Outcome(write(c, Len(c), text), p,
                     IF e._hash_obj # ht THEN "ValueError" ELSE "ok")

\* _OpenHashFile.append on hash type ht, text c and position p, with entry
\* e whose hash property evaluates to hash(e, d).
append(ht, c, p, e, d) ==
    IF e._hash_obj # ht THEN Outcome(c, p, "ValueError")
    ELSE
      LET initial_position == p
          here == Len(c)
          h == hash(e, d)
      IN  IF h = IOError THEN Outcome(c, here, "IOError")
          ELSE Outcome(write(c, here, appended_text(c, h, e)),
                       initial_position, "ok")

\* The loop of update over entries(): reads lines from offset cur on.
\* "match": a line for filepath starts at offset `at`; "eof": no line
\* matched; "malformed": from_str raised after the line ending at `at`.
RECURSIVE scan(_, _, _, _)
scan(ht, c, cur, filepath) ==
    LET line == readline(c, cur)
        found == from_str(line, ht)
    IN  IF Len(line) = 0 THEN [kind |-> "eof", at |-> cur]
        ELSE IF found = None
             THEN [kind |-> "malformed", at |-> cur + Len(line)]
        ELSE IF filepath = found[1].filepath
             THEN [kind |-> "match", at |-> cur]
        ELSE scan(ht, c, cur + Len(line), filepath)

\* The else branch of update's loop, taken at end of file (offset `at`)
\* when no line matched: append(entry), then the seek back.
update_miss(ht, c, at, initial_position, e, d) ==
    LET appended == append(ht, c, at, e, d)
    IN  IF appended.outcome = "ok"
        THEN Outcome(appended.content, initial_position, "ok")
        ELSE appended

\* update without the seek back to the initial position
update_no_seek_back(ht, c, p, e, d) ==
    IF e._hash_obj # ht THEN Outcome(c, p, "ValueError")
    ELSE
      LET s == scan(ht, c, p, e.filepath)
          h == hash(e, d)
      IN  CASE s.kind = "malformed" -> Outcome(c, s.at, "MalformedLineError")
            [] s.kind = "match" ->
                 IF h = IOError THEN Outcome(c, s.at, "IOError")
                 ELSE Outcome(write(c, s.at, h), s.at + Len(h), "ok")
            [] s.kind = "eof" -> append(ht, c, s.at, e, d)

\* _OpenHashFile.update
update(ht, c, p, e, d) ==
    IF e._hash_obj # ht THEN Outcome(c, p, "ValueError")
    ELSE
      LET initial_position == p
          s == scan(ht, c, initial_position, e.filepath)
          previous_position == s.at
          h == hash(e, d)
      IN  CASE s.kind = "malformed" -> Outcome(c, s.at, "MalformedLineError")
            [] s.kind = "match" ->
                 IF h = IOError THEN Outcome(c, previous_position, "IOError")
                 ELSE Outcome(write(c, previous_position, h),
                              initial_position, "ok")
            [] s.kind = "eof" ->
                 update_miss(ht, c, s.at, initial_position, e, d)

\* entries() that ends at a line that does not parse instead of raising
entries_ends_at_malformed(ht, c, p) ==
    LET line == readline(c, p)
        found == from_str(line, ht)
    IN  [line |-> line,
         pos |-> p + Len(line),
         step |-> IF Len(line) = 0 \/ found = None THEN "stop" ELSE "yield",
         found |-> found]

\* One step of the generator entries(): the line read, the position after
\* it, and what the step does: "stop", "yield" or "MalformedLineError".
entries(ht, c, p) ==
    LET line == readline(c, p)
        found == from_str(line, ht)
    IN  [line |-> line,
         pos |-> p + Len(line),
         step |-> IF Len(line) = 0 THEN "stop"
                  ELSE IF found = None THEN "MalformedLineError"
                  ELSE "yield",
         found |-> found]

(***************************************************************************)
(* Inputs of the stream: the manifest found on disk and the entries given  *)
(* to append and update                                                    *)
(***************************************************************************)
PathNames == {<<"x">>, <<"a">>}

\* The digest stored in the manifest when it is opened.
StoredDigest(ht) == [i \in 1..DigestLen(ht) |-> "a"]

\* Lines of the manifest on disk: a text and a binary entry of the
\* stream's hash type, an indented entry, and a line that is no entry.
InitLines(ht) ==
    {Str(StoredDigest(ht), FALSE, <<"x">>),
     Str(StoredDigest(ht), TRUE, <<"a">>),
     <<" ">> \o Str(StoredDigest(ht), FALSE, <<"x">>),
     <<"x">>}

RECURSIVE Terminated(_, _)
Terminated(ht, n) ==
    IF n = 0 THEN {<<>>}
    ELSE LET shorter == Terminated(ht, n - 1)
         IN  shorter \cup
               {f \o l \o <<"\n">> : f \in shorter, l \in InitLines(ht)}

\* Manifests of at most MaxLines lines; the last line may lack its newline.
InitFiles(ht) ==
    LET t == Terminated(ht, MaxLines)
    IN  t \cup {SubSeq(f, 1, Len(f) - 1) : f \in t \ {<<>>}}

\* Digests an entry can hold in its cache: from_str takes any hex text
\* from the line, and the hash_type setter keeps the digest of the
\* previous algorithm.
CachedDigests == {<<"b">>, <<"b", "b">>}

\* The entries given to append and update: a text target and a binary
\* target, of either hash type, with or without a cached digest.
StreamEntries ==
    {[HashEntry(f, f = <<"a">>, t) EXCEPT !._hash_cache = hc] :
        f \in PathNames, t \in algorithms_available,
        hc \in {<<>>} \cup CachedDigests}

\* What reading e.hash can give.
HashOutcomes(e) ==
    IF cached(e) THEN {e._hash_cache}
    ELSE {d \in _hash(e) : \A i \in 1..Len(d) : d[i] # "a"}

NoEntry == HashEntry(<<>>, FALSE, DEFAULT_HASH_TYPE)

Call(op, e, d, r) ==
    [op |-> op, entry |-> e, hash |-> hash(e, d),
     content |-> content, pos |-> pos, outcome |-> r]

(***************************************************************************)
(* The stream as a state machine                                           *)
(***************************************************************************)
EntryIdle ==
    /\ entry = NoEntry
    /\ reads = 0
    /\ result = [op |-> "none", arg |-> <<>>, prev |-> NoEntry, value |-> <<>>]

HandleIdle ==
    /\ _count = 0
    /\ _file = None
    /\ opens = 0
    /\ closed = {}
    /\ held = <<>>
    /\ failed = 0

\* No generator was made: nothing was yielded and nothing was written.
NewIteration ==
    [state |-> "new", at |-> 0, from |-> <<>>, yielded |-> <<>>,
     after |-> 0, appended |-> <<>>, updates |-> 0, error |-> "none"]

IterIdle == iter = NewIteration

StreamIdle ==
    /\ hash_type = DEFAULT_HASH_TYPE
    /\ content = <<>>
    /\ pos = 0
    /\ last = Call("open", NoEntry, <<>>, "ok")
    /\ calls = 0

Init ==
    /\ hash_type \in algorithms_available
    /\ content \in InitFiles(hash_type)
    /\ pos = 0
    /\ last = Call("open", NoEntry, <<>>, "ok")
    /\ calls = 0
    /\ EntryIdle
    /\ HandleIdle
    /\ IterIdle

\* stream.append(e)
AppendCall ==
    \E e \in StreamEntries : \E d \in HashOutcomes(e) :
        /\ calls < MaxCalls
        /\ calls' = calls + 1
        /\ LET r == append(hash_type, content, pos, e, d)
           IN  /\ content' = r.content
               /\ pos' = r.pos
               /\ last' = Call("append", e, d, r.outcome)
        /\ UNCHANGED <<hash_type, entryVars, handleVars, iterVars>>

\* stream.update(e)
UpdateCall ==
    \E e \in StreamEntries : \E d \in HashOutcomes(e) :
        /\ calls < MaxCalls
        /\ calls' = calls + 1
        /\ LET r == update(hash_type, content, pos, e, d)
           IN  /\ content' = r.content
               /\ pos' = r.pos
               /\ last' = Call("update", e, d, r.outcome)
        /\ UNCHANGED <<hash_type, entryVars, handleVars, iterVars>>

\* next() on the generator stream.entries()
NextCall ==
    LET r == entries(hash_type, content, pos)
    IN  /\ pos' = r.pos
        /\ last' = Call("next", NoEntry, <<>>, r.step)
        /\ UNCHANGED <<content, hash_type, calls, entryVars, handleVars, iterVars>>

Next == AppendCall \/ UpdateCall \/ NextCall

Spec == Init /\ [][Next]_vars

(***************************************************************************)
(* Vocabulary of the claims about the stream                               *)
(***************************************************************************)
NumLines(c) == Len(Lines(c))

LastLine(c) == Lines(c)[NumLines(c)]

IsPrefix(s, t) == Len(s) <= Len(t) /\ SubSeq(t, 1, Len(s)) = s

\* Every line of the manifest c parses.
WellFormed(ht, c) ==
    \A i \in 1..NumLines(c) : from_str(Lines(c)[i], ht) # None

\* Some line of the manifest c is an entry for filepath.
HasLineFor(ht, c, filepath) ==
    \E i \in 1..NumLines(c) :
        /\ from_str(Lines(c)[i], ht) # None
        /\ from_str(Lines(c)[i], ht)[1].filepath = filepath

\* The serialized form of the entry of the last call.
Serialized == Str(last.hash, last.entry.binary, last.entry.filepath)

Mismatch == last.entry._hash_obj # hash_type

\* The last call was `op` and returned normally.
Returned(op) == last.op = op /\ last.outcome = "ok"

\* Where the update of the last call met the first line for its filepath,
\* reading on from the position it was called at.
Met == scan(hash_type, last.content, last.pos, last.entry.filepath)

\* Offsets (1-based) of the line met by update up to the end of its digest:
\* what comes after them is the separator and the filepath of that line,
\* then the other lines.
DigestOffsets ==
    LET line == readline(last.content, Met.at)
        indent == Run(line, Whitespace)
        nhex == Run(Drop(line, indent), HexDigits)
    IN  (Met.at + 1)..(Met.at + indent + nhex)

EmptyLines(c) == {i \in 1..NumLines(c) : Lines(c)[i] = <<"\n">>}

(***************************************************************************)
(* Claims about the stream                                                 *)
(***************************************************************************)
\* C1: update finds a stored entry with the same filepath wherever the
\* cursor is: when the manifest has a line for entry.filepath, update
\* overwrites and appends nothing, so the number of lines is unchanged.
C1_UpdateFindsStoredEntry ==
    (Returned("update") /\ HasLineFor(hash_type, last.content, last.entry.filepath))
        => NumLines(content) = NumLines(last.content)

\* C2: an update with an entry of the stream's hash type that finds a
\* matching filepath changes only the digest of the matched line: the
\* length of the file is unchanged, and every other line and the separator
\* and filepath of the matched line are unchanged.
C2_UpdateChangesOnlyDigest ==
    (Returned("update") /\ Met.kind = "match")
        => /\ Len(content) = Len(last.content)
           /\ \A i \in 1..Len(last.content) :
                 content[i] # last.content[i] => i \in DigestOffsets

\* C3: append with a matching hash type leaves the cursor where it was,
\* leaves every character that was in the file unchanged, and makes the
\* serialized entry the last line, which a scan of the lines from offset 0
\* reads last.
C3_AppendKeepsCursorAndAddsLastLine ==
    Returned("append")
        => /\ pos = last.pos
           /\ IsPrefix(last.content, content)
           /\ LastLine(content) = Serialized \o <<"\n">>
           /\ NumLines(content) = NumLines(last.content) + 1

C3_Witness ==
    /\ Returned("append")
    /\ last.pos > 0
    /\ last.pos < Len(last.content)
    /\ content # last.content

\* C4: append or update of an entry whose hash type differs from the
\* stream's fails with ValueError, and leaves the content and the cursor
\* as they were.
C4_MismatchChangesNothing ==
    (last.op \in {"append", "update"} /\ Mismatch)
        => /\ last.outcome = "ValueError"
           /\ content = last.content
           /\ pos = last.pos

C4_Witness ==
    /\ last.op = "update"
    /\ Mismatch
    /\ last.outcome = "ValueError"
    /\ HasLineFor(hash_type, last.content, last.entry.filepath)
    /\ pos > 0

\* C7: update for a filepath that is on no line of the manifest appends:
\* the manifest gains exactly one line, the serialized entry, placed last,
\* and the previous content is unchanged; on a manifest whose lines all
\* parse, with an entry of the stream's hash type whose hash can be read,
\* update does so and returns.
C7_UpdateMissAppends ==
    /\ (Returned("update")
          /\ ~HasLineFor(hash_type, last.content, last.entry.filepath))
        => /\ NumLines(content) = NumLines(last.content) + 1
           /\ LastLine(content) = Serialized \o <<"\n">>
           /\ IsPrefix(last.content, content)
    /\ (last.op = "update" /\ ~Mismatch /\ last.hash # IOError
          /\ WellFormed(hash_type, last.content)
          /\ ~HasLineFor(hash_type, last.content, last.entry.filepath))
        => last.outcome = "ok"

\* C8: append writes the entry line and one newline; before it, nothing
\* on an empty file, one newline on a file whose last character is not a
\* newline, nothing on a file ending in a newline.  The file then ends
\* with a newline and has no empty line it did not have before.
C8_AppendNewlinePolicy ==
    Returned("append")
        => LET n == Len(last.content)
               written == Drop(content, n)
               line == Serialized \o <<"\n">>
           IN  /\ IsPrefix(last.content, content)
               /\ n = 0 => written = line
               /\ (n > 0 /\ last.content[n] # "\n") => written = <<"\n">> \o line
               /\ (n > 0 /\ last.content[n] = "\n") => written = line
               /\ content[Len(content)] = "\n"
               /\ Cardinality(EmptyLines(content))
                    = Cardinality(EmptyLines(last.content))

C8_Witness ==
    /\ Returned("append")
    /\ last.content # <<>>
    /\ last.content[Len(last.content)] # "\n"
    /\ Drop(content, Len(last.content)) = <<"\n">> \o Serialized \o <<"\n">>

(***************************************************************************)
(* HashFile as a state machine                                             *)
(***************************************************************************)
InitHandle == HandleIdle /\ StreamIdle /\ EntryIdle /\ IterIdle

\* HashFile.__enter__ when open() succeeds or is not called
EnterCall ==
    /\ _count < MaxCount
    /\ _file = None => opens < MaxOpens
    /\ _count' = _count + 1
    /\ IF _file # None
       THEN /\ held' = Append(held, _file[1])
            /\ UNCHANGED <<_file, opens>>
       ELSE /\ opens' = opens + 1
            /\ _file' = Some(opens + 1)
            /\ held' = Append(held, opens + 1)
    /\ UNCHANGED <<closed, failed, streamVars, entryVars, iterVars>>

\* HashFile.__enter__ when open() raises: nothing is returned
EnterRaises ==
    /\ _count < MaxCount
    /\ failed < MaxFailed
    /\ _file = None
    /\ _count' = _count + 1
    /\ failed' = failed + 1
    /\ UNCHANGED <<_file, opens, closed, held, streamVars, entryVars, iterVars>>

\* __exit__ that closes the stream whatever the counter
ExitCall_closes_always ==
    /\ IF _file # None
       THEN /\ _count' = _count - 1
            /\ closed' = closed \cup {_file[1]}
            /\ _file' = None
       ELSE UNCHANGED <<_count, closed, _file>>
    /\ held' = IF held = <<>> THEN held ELSE SubSeq(held, 1, Len(held) - 1)
    /\ UNCHANGED <<opens, failed, streamVars, entryVars, iterVars>>

\* HashFile.__exit__
ExitCall ==
    /\ IF _file # None
       THEN /\ _count' = _count - 1
            /\ IF _count - 1 = 0
               THEN /\ closed' = closed \cup {_file[1]}
                    /\ _file' = None
               ELSE UNCHANGED <<closed, _file>>
       ELSE UNCHANGED <<_count, closed, _file>>
    /\ held' = IF held = <<>> THEN held ELSE SubSeq(held, 1, Len(held) - 1)
    /\ UNCHANGED <<opens, failed, streamVars, entryVars, iterVars>>

NextHandle == EnterCall \/ EnterRaises \/ ExitCall

SpecHandle == InitHandle /\ [][NextHandle]_vars

\* The handle holds a stream that was not closed.
Live == _file # None /\ _file[1] \notin closed

\* C5: in every state reached by acquire and release calls, failing
\* acquires and releases with nothing acquired included, the handle holds
\* a live stream if and only if its counter is greater than zero, and the
\* counter is never negative.
C5_StreamIffCounterPositive ==
    /\ _count >= 0
    /\ Live <=> _count > 0
    /\ _file # None => Live

\* C6: with no failed acquire, the nested acquisitions all hold the one
\* stream the handle holds, which was opened once and is open while any of
\* them is outstanding; the release of the last one closes it, a further
\* release changes nothing, and a later acquire opens a stream that was
\* never closed.
C6_NestedAcquiresShareOneStream ==
    failed = 0
        => /\ _count = Len(held)
           /\ \A i \in 1..Len(held) : _file = Some(held[i])
           /\ held = <<>> <=> _file = None
           /\ _file # None => _file[1] \notin closed
           /\ closed = 1..(opens - Len(_file))

C6_Witness ==
    /\ failed = 0
    /\ Len(held) = 2
    /\ closed = {1}
    /\ _file = Some(2)

(***************************************************************************)
(* HashEntry as a state machine                                            *)
(***************************************************************************)
FilePaths == SeqsUpTo(Chars, MaxPathLen)
InputLines == SeqsUpTo(Chars, MaxLineLen)

\* The hash_type argument: a name, or None for the default.
HashTypeArgs == {Some(t) : t \in HashTypeNames} \cup {None}
TypeOf(arg) == IF arg = None THEN DEFAULT_HASH_TYPE ELSE arg[1]

Result(op, arg, prev, value) ==
    [op |-> op, arg |-> arg, prev |-> prev, value |-> value]

\* A behaviour follows one HashEntry object from the call that makes it:
\* nothing was called yet, and `entry` is still to be constructed.
InitEntry == EntryIdle /\ StreamIdle /\ HandleIdle /\ IterIdle

Unmade == result.op = "none"

\* The constructing call returned an object.
Made ==
    /\ result.op # "none"
    /\ result.op \in {"init", "from_str"} => result.value = <<>>

\* HashEntry(filepath, binary, hash_type)
InitCall ==
    \E f \in FilePaths, b \in BOOLEAN, t \in HashTypeArgs :
        /\ Unmade
        /\ IF TypeOf(t) \notin algorithms_available
           THEN /\ result' = Result("init", f, NoEntry, <<"ValueError">>)
                /\ UNCHANGED <<entry, reads>>
           ELSE /\ entry' = HashEntry(f, b, TypeOf(t))
                /\ reads' = 0
                /\ result' = Result("init", f, NoEntry, <<>>)
        /\ UNCHANGED <<streamVars, handleVars, iterVars>>

\* entry.cached
CachedCall ==
    /\ Made
    /\ result' = Result("cached", <<>>, NoEntry,
                        IF cached(entry) THEN <<"True">> ELSE <<"False">>)
    /\ UNCHANGED <<entry, reads, streamVars, handleVars, iterVars>>

\* The effect of reading entry.hash with outcome d on the entry and on the
\* number of reads of its target.
ReadHash(d) ==
    /\ entry' = AfterHash(entry, d)
    /\ reads' = IF cached(entry) \/ d = IOError THEN reads ELSE reads + 1

\* entry.hash
HashCall ==
    \E d \in _hash(entry) :
        /\ Made
        /\ ReadHash(d)
        /\ result' = Result("hash", <<>>, NoEntry, hash(entry, d))
        /\ UNCHANGED <<streamVars, handleVars, iterVars>>

\* str(entry)
StrCall ==
    \E d \in _hash(entry) :
        /\ Made
        /\ ReadHash(d)
        /\ result' = Result("str", <<>>, NoEntry,
                            IF hash(entry, d) = IOError THEN IOError
                            ELSE Str(hash(entry, d), entry.binary, entry.filepath))
        /\ UNCHANGED <<streamVars, handleVars, iterVars>>

\* entry.hash_type = value
SetHashTypeCall ==
    \E value \in HashTypeNames :
        /\ Made
        /\ IF entry._hash_obj = value
           THEN /\ result' = Result("hash_type", <<value>>, NoEntry, <<>>)
                /\ UNCHANGED entry
           ELSE IF value \notin algorithms_available
           THEN /\ result' = Result("hash_type", <<value>>, NoEntry, <<"ValueError">>)
                /\ UNCHANGED entry
           ELSE /\ result' = Result("hash_type", <<value>>, NoEntry, <<>>)
                /\ entry' = [entry EXCEPT !._hash_obj = value]
        /\ UNCHANGED <<reads, streamVars, handleVars, iterVars>>

\* The entry and the value of HashEntry.from_str(line, hash_type=t)
Parse(op, line, t, prev) ==
    IF _default_line_split(line) = None
    THEN /\ result' = Result(op, line, prev, <<"MalformedLineError">> \o strip(line))
         /\ UNCHANGED <<entry, reads>>
    ELSE IF TypeOf(t) \notin algorithms_available
    THEN /\ result' = Result(op, line, prev, <<"ValueError">>)
         /\ UNCHANGED <<entry, reads>>
    ELSE /\ entry' = from_str(line, TypeOf(t))[1]
         /\ reads' = 0
         /\ result' = Result(op, line, prev, <<>>)

\* HashEntry.from_str(line, hash_type=t)
FromStrCall ==
    \E line \in InputLines, t \in HashTypeArgs :
        /\ Unmade
        /\ Parse("from_str", line, t, NoEntry)
        /\ UNCHANGED <<streamVars, handleVars, iterVars>>

\* HashEntry.from_str(str(entry), hash_type=entry.hash_type): the entry
\* made from the text of a cached entry takes its place.
RoundTripCall ==
    /\ Made
    /\ cached(entry)
    /\ Parse("round_trip",
             Str(entry._hash_cache, entry.binary, entry.filepath),
             Some(entry._hash_obj), entry)
    /\ UNCHANGED <<streamVars, handleVars, iterVars>>

NextEntry ==
    \/ InitCall
    \/ CachedCall
    \/ HashCall
    \/ StrCall
    \/ SetHashTypeCall
    \/ FromStrCall
    \/ RoundTripCall

SpecEntry == InitEntry /\ [][NextEntry]_vars

(***************************************************************************)
(* Claims about HashEntry                                                  *)
(***************************************************************************)
\* str(entry) returned a text.
Printed == result.op = "str" /\ result.value # IOError

ModeChar == IF entry.binary THEN "*" ELSE " "

\* C9 as stated: the text is the digest, then one separator character
\* ('*' when binary, a space otherwise), then the filepath, with no other
\* character between the digest and the filepath.
C9_OneSeparatorCharacter ==
    Printed => result.value = entry._hash_cache \o <<ModeChar>> \o entry.filepath

\* C9 amended: the text is the digest, then one space, then the mode
\* character ('*' when binary, a space otherwise), then the filepath: two
\* characters stand between the digest and the filepath.
C9_DigestSpaceModeFilepath ==
    Printed
        => LET n == Len(entry._hash_cache)
               text == result.value
           IN  /\ Len(text) = n + 2 + Len(entry.filepath)
               /\ SubSeq(text, 1, n) = entry._hash_cache
               /\ text[n + 1] = " "
               /\ text[n + 2] = ModeChar
               /\ Drop(text, n + 2) = entry.filepath

C9_Witness ==
    /\ Printed
    /\ entry.binary
    /\ entry.filepath = <<"x">>
    /\ Len(entry._hash_cache) = 2

\* C10: parsing the text of an entry with a cached hex digest gives an
\* entry with the same filepath, the same binary flag and the same cached
\* hash, whatever the filepath and the flag.
C10_RoundTrip ==
    result.op = "round_trip"
        => /\ result.value = <<>>
           /\ entry.filepath = result.prev.filepath
           /\ entry.binary = result.prev.binary
           /\ entry._hash_cache = result.prev._hash_cache

\* The step is a call on the object that `entry` already was: every call
\* but the constructing ones, which put a new object in its place.
SameObject == result'.op \in {"cached", "hash", "str", "hash_type"}

\* C11: over the calls hash, str, cached and the hash_type setter on one
\* HashEntry, the target file is read at most once, and never for an
\* entry made by from_str; once the entry is cached it stays cached with
\* the same digest, and every later read of hash returns that digest.
C11_Memoization ==
    [][/\ reads' <= 1
       /\ entry'._raw_entry # <<>> => reads' = 0
       /\ (SameObject /\ cached(entry))
            => /\ cached(entry')
               /\ entry'._hash_cache = entry._hash_cache
               /\ reads' = reads
               /\ result'.op = "hash" => result'.value = entry._hash_cache
               /\ result'.op = "cached" => result'.value = <<"True">>]_vars

\* hash was read, the hash type was changed, and hash was read again: the
\* digest returned is the one computed by the first read.
C11_Witness ==
    /\ result.op = "hash"
    /\ reads = 1
    /\ result.value = entry._hash_cache
    /\ Len(entry._hash_cache) # DigestLen(entry._hash_obj)

\* The text s is one or more hex digits, then one or more whitespace
\* characters, then any text.
HexSpaceRest(s) ==
    \E i \in 1..Len(s) : \E j \in (i + 1)..Len(s) :
        /\ \A k \in 1..i : s[k] \in HexDigits
        /\ \A k \in (i + 1)..j : s[k] \in Whitespace

\* The text s with the whitespace at both ends removed: s from its first
\* to its last character that is not whitespace.
Trimmed(s) ==
    LET inked == {i \in 1..Len(s) : s[i] \notin Whitespace}
    IN  IF inked = {} THEN <<>>
        ELSE SubSeq(s, CHOOSE i \in inked : \A k \in inked : i <= k,
                       CHOOSE j \in inked : \A k \in inked : k <= j)

\* C12: from_str with the default splitter raises MalformedLineError
\* carrying the trimmed line, and makes no HashEntry, for every line that
\* after trimming is not hex digits, then at least one whitespace
\* character, then the rest; whatever hash type is asked for.
C12_GrammarRejection ==
    (result.op = "from_str" /\ ~HexSpaceRest(Trimmed(result.arg)))
        => /\ result.value = <<"MalformedLineError">> \o Trimmed(result.arg)
           /\ entry = NoEntry

\* A hex-only line with whitespace around it: the error carries the hex.
C12_Witness ==
    /\ result.op = "from_str"
    /\ result.arg = <<" ", "a", "\n">>
    /\ result.value = <<"MalformedLineError", "a">>
    /\ entry = NoEntry

\* C13: when the hash_type setter changes the hash type of an entry to a
\* different supported name, the entry is no longer cached afterwards.
C13_HashTypeChangeUncaches ==
    [][(result'.op = "hash_type" /\ entry'._hash_obj # entry._hash_obj)
          => ~cached(entry')]_vars

(***************************************************************************)
(* Claims about the cursor and the offsets of update                       *)
(***************************************************************************)
\* C14: an update that returns, whether it overwrote a matching line or
\* fell back to append, leaves the cursor at the position it had before
\* the call, whatever that position was.
C14_UpdateRestoresCursor ==
    Returned("update") => pos = last.pos

\* An update called with the cursor past the first line overwrote a line
\* further on.
C14_Witness ==
    /\ Returned("update")
    /\ last.pos > 0
    /\ Met.kind = "match"
    /\ content # last.content
    /\ pos = last.pos

\* The last call passed the hash type guard and then raised.
FailedPastGuard ==
    /\ last.op \in {"append", "update"}
    /\ last.outcome \in {"MalformedLineError", "IOError"}

\* C15: when append or update fails after passing the hash type guard
\* (the scan of update meets a malformed line, or reading the hash of the
\* entry raises an I/O error), the content is unchanged and the cursor is
\* at its position before the call.
C15_FailureRestoresCursor ==
    FailedPastGuard => content = last.content /\ pos = last.pos

\* The line met by update, and the offsets (1-based) of its hash field:
\* the hex digits that follow its leading whitespace.
MetLine == readline(last.content, Met.at)

HashField ==
    LET indent == Run(MetLine, Whitespace)
        nhex == Run(Drop(MetLine, indent), HexDigits)
    IN  (Met.at + indent + 1)..(Met.at + indent + nhex)

\* C16: update overwrites from the first character of the hash field of
\* the matched line, leading whitespace or not: when the digest written
\* is as long as the stored one, every character that changes is a
\* character of the stored digest.
C16_UpdateWritesAtHashField ==
    (Returned("update") /\ Met.kind = "match"
        /\ Len(last.hash) = Cardinality(HashField))
        => \A i \in 1..Len(last.content) :
               content[i] # last.content[i] => i \in HashField

(***************************************************************************)
(* One generator of entries() and the caller that drives it                *)
(***************************************************************************)
\* iter.state: "new" before the first next(), "running" after a yield,
\* "stopped" when the generator returned at end of file, "raised" when
\* from_str raised out of it, "aborted" when the body of the caller's
\* loop raised.  iter.at and iter.from are the cursor and the content at
\* the first next(), where the body of the generator starts to run.
IterFiles(ht) ==
    LET t == Terminated(ht, MaxIterLines)
    IN  t \cup {SubSeq(f, 1, Len(f) - 1) : f \in t \ {<<>>}}

InitIter ==
    /\ hash_type \in algorithms_available
    /\ content \in IterFiles(hash_type)
    /\ pos = 0
    /\ last = Call("open", NoEntry, <<>>, "ok")
    /\ calls = 0
    /\ EntryIdle
    /\ HandleIdle
    /\ IterIdle

Finished == iter.state \in {"stopped", "raised", "aborted"}

\* next() on a generator made earlier, before the first next() of the one
\* followed: the cursor is left after the line it read.
EarlierNext ==
    LET r == entries(hash_type, content, pos)
    IN  /\ iter.state = "new"
        /\ r.step # "stop"
        /\ pos' = r.pos
        /\ UNCHANGED <<content, hash_type, last, calls, iter,
                       entryVars, handleVars>>

\* next() on the generator while it has not finished
IterNext ==
    LET r == entries(hash_type, content, pos)
        started == IF iter.state = "new"
                   THEN [iter EXCEPT !.at = pos, !.from = content]
                   ELSE iter
    IN  /\ ~Finished
        /\ pos' = r.pos
        /\ iter' = CASE r.step = "stop" ->
                          [started EXCEPT !.state = "stopped"]
                     [] r.step = "MalformedLineError" ->
                          [started EXCEPT !.state = "raised",
                                          !.error = "MalformedLineError"]
                     [] r.step = "yield" ->
                          [started EXCEPT !.state = "running",
                                          !.yielded = Append(@, r.found[1])]
        /\ UNCHANGED <<content, hash_type, last, calls, entryVars, handleVars>>

\* next() on the generator after it finished: StopIteration, no line read
NextAfterEnd ==
    /\ Finished
    /\ iter.after < MaxAfter
    /\ iter' = [iter EXCEPT !.after = @ + 1]
    /\ UNCHANGED <<streamVars, entryVars, handleVars>>

\* stream.append(e), once, by the caller of the generator, who catches
\* what it raises.  The call is recorded with the state it was made in.
IterAppend ==
    \E e \in StreamEntries : \E d \in HashOutcomes(e) :
        /\ ~Finished
        /\ iter.appended = None
        /\ iter.updates = 0
        /\ LET r == append(hash_type, content, pos, e, d)
           IN  /\ content' = r.content
               /\ pos' = r.pos
               /\ iter' = [iter EXCEPT !.appended =
                              Some([entry |-> e, hash |-> hash(e, d),
                                    content |-> content, pos |-> pos,
                                    state |-> iter.state,
                                    yielded |-> Len(iter.yielded),
                                    outcome |-> r.outcome])]
        /\ UNCHANGED <<hash_type, last, calls, entryVars, handleVars>>

\* The body of `for found in stream.entries(): stream.update(e)`, where e
\* is a new entry with the filepath and binary flag of `found` and the
\* hash type of the stream: it runs once for each entry yielded, before
\* the next one is asked for, and what it raises ends the loop.
LoopUpdate ==
    /\ iter.state = "running"
    /\ iter.appended = None
    /\ iter.updates = Len(iter.yielded) - 1
    /\ iter.updates < MaxLoopUpdates
    /\ LET found == iter.yielded[Len(iter.yielded)]
           e == HashEntry(found.filepath, found.binary, hash_type)
       IN  \E d \in HashOutcomes(e) :
               LET r == update(hash_type, content, pos, e, d)
               IN  /\ content' = r.content
                   /\ pos' = r.pos
                   /\ iter' = IF r.outcome = "ok"
                              THEN [iter EXCEPT !.updates = @ + 1]
                              ELSE [iter EXCEPT !.updates = @ + 1,
                                                !.state = "aborted",
                                                !.error = r.outcome]
    /\ UNCHANGED <<hash_type, last, calls, entryVars, handleVars>>

NextIter ==
    \/ EarlierNext
    \/ IterNext
    \/ NextAfterEnd
    \/ IterAppend
    \/ LoopUpdate

SpecIter == InitIter /\ [][NextIter]_vars

(***************************************************************************)
(* Claims about iteration                                                  *)
(***************************************************************************)
\* The generator was started and its caller wrote nothing to the stream.
ReadOnlyIteration ==
    iter.state # "new" /\ iter.appended = None /\ iter.updates = 0

\* The lines from the cursor at the first next() to the end of the file.
LinesAhead == Lines(Drop(iter.from, iter.at))

\* The entry e is what line gives: the line is kept as the raw entry, the
\* hash type is the stream's, and the cache holds the hex digits the
\* trimmed line starts with.
YieldedFrom(e, line) ==
    LET t == Trimmed(line)
    IN  /\ HexSpaceRest(t)
        /\ e._raw_entry = line
        /\ e._hash_obj = hash_type
        /\ cached(e)
        /\ e._hash_cache = SubSeq(t, 1, Run(t, HexDigits))

\* C17: entries() yields one HashEntry per line from the cursor to the
\* end of the file, in file order, each of the stream's hash type with
\* its hash cached from the line; at the first line that does not parse
\* it raises MalformedLineError and yields nothing more, the entries
\* yielded before being exactly the lines before that line.
C17_OneEntryPerLine ==
    ReadOnlyIteration
        => LET n == Len(iter.yielded)
           IN  /\ n <= Len(LinesAhead)
               /\ \A i \in 1..n : YieldedFrom(iter.yielded[i], LinesAhead[i])
               /\ iter.state = "stopped" => n = Len(LinesAhead)
               /\ iter.state = "raised"
                    => /\ n < Len(LinesAhead)
                       /\ ~HexSpaceRest(Trimmed(LinesAhead[n + 1]))
               /\ iter.state = "running"
                    => pos = iter.at + Len(join(<<>>, SubSeq(LinesAhead, 1, n)))

\* One entry was yielded, the second line raised, and a further next()
\* on the generator gave nothing.
C17_Witness ==
    /\ ReadOnlyIteration
    /\ iter.state = "raised"
    /\ Len(iter.yielded) = 1
    /\ iter.after = 1

\* The append made during the iteration.
Appended == iter.appended[1]

\* The lines of the manifest not yet read when append was called.
Unread == Lines(Drop(Appended.content, Appended.pos))

\* append was called and returned while the iteration was part-way
\* through the manifest: it had yielded an entry, and lines that parse
\* were still to be read.
AppendedPartWay ==
    /\ iter.appended # None
    /\ Appended.outcome = "ok"
    /\ Appended.state = "running"
    /\ Appended.pos < Len(Appended.content)
    /\ WellFormed(hash_type, Drop(Appended.content, Appended.pos))

\* The entry e has the filepath, the binary flag and the digest of f.
SameEntry(e, f) ==
    /\ e.filepath = f.filepath
    /\ e.binary = f.binary
    /\ e._hash_cache = f._hash_cache

IterateAndUpdate ==
    /\ iter.state # "new"
    /\ iter.at = 0
    /\ WellFormed(hash_type, iter.from)
    /\ iter.appended = None
    /\ iter.updates \in {Len(iter.yielded) - 1, Len(iter.yielded)}
    /\ iter.error # "IOError"

\* C19: a loop that iterates a well-formed manifest from offset 0 and
\* calls update for each yielded entry, with an entry of the same
\* filepath and hash type, reaches the end of the stream with as many
\* lines as at the start.  update removes no line, so the number of
\* lines is the same at every step of such a loop; the loop yields no
\* more entries than the manifest had lines, and no step of it raises.
C19_IterateAndUpdateEnds ==
    IterateAndUpdate
        => /\ NumLines(content) = NumLines(iter.from)
           /\ Len(iter.yielded) <= NumLines(iter.from)
           /\ iter.state \notin {"raised", "aborted"}

====
